---- MODULE Spec2Model ----
(***************************************************************************)
(* A model of the online chat messenger: the frame codec                   *)
(* (src/common/protocol.py), the room registry and the two handlers of     *)
(* the token-based server (src/server.py), with the client's endpoint      *)
(* behaviour it depends on (src/client.py).                                *)
(*                                                                         *)
(* Python values are modelled as follows.  bytes: a sequence of 0..255.     *)
(* str: a sequence of Unicode code points.  A call that may raise returns  *)
(* a record whose field ok says whether it returned; err names the         *)
(* exception otherwise.  None is the string "None" where the value is a    *)
(* name, the empty tuple where it is a str, a tuple or an int (an int n is *)
(* then the tuple <<n>>).                                                  *)
(*                                                                         *)
(* Handlers run as threads (server.py:147, 207).  A handler's steps are     *)
(* the accesses it makes to the shared room table; the thread-local        *)
(* computation and the socket calls between two accesses belong to one of  *)
(* the two steps, since no other thread can observe them.                  *)
(*                                                                         *)
(* Three specifications: Spec, the server with its handlers and datagrams; *)
(* RegistrySpec, the registry alone under one more control-plane handler;  *)
(* CodecSpec, calls of the codec on its own; Stage1Spec, the stage-1       *)
(* relay server (src/server/server_stage1.py), a single-threaded loop.     *)
(***************************************************************************)
EXTENDS Integers, Sequences, FiniteSets, TLC

None == "None"

\* The element of a one-element set.  {F(v) : v \in {e}} is F(e) with e
\* evaluated once, however often F uses it.
Only(S) == CHOOSE x \in S : TRUE

Min(a, b) == IF a < b THEN a ELSE b
Max(a, b) == IF a > b THEN a ELSE b

(***************************************************************************)
(* Python built-ins used by the program.                                   *)
(***************************************************************************)

\* s[a:b]: indices are 0-based, negative ones count from the end, and both
\* are clamped to the sequence.
PySlice(s, a, b) ==
  LET n  == Len(s)
      lo == IF a < 0 THEN Max(n + a, 0) ELSE Min(a, n)
      hi == IF b < 0 THEN Max(n + b, 0) ELSE Min(b, n)
  IN  IF lo >= hi THEN <<>> ELSE SubSeq(s, lo + 1, hi)

\* n.to_bytes(1, "big"): OverflowError outside 0..255.
ToBytes1(n) ==
  IF n >= 0 /\ n <= 255 THEN [ok |-> TRUE, val |-> <<n>>]
                        ELSE [ok |-> FALSE, err |-> "OverflowError"]

IsCont(b) == b >= 128 /\ b <= 191

\* The number of bytes of the UTF-8 sequence that starts at bs[i], 0 when the
\* bytes there are no well-formed sequence (strict UTF-8: no overlong form, no
\* surrogate, nothing above U+10FFFF, no truncation).
Utf8SeqLen(bs, i) ==
  LET n  == Len(bs)
      b0 == bs[i]
      b1 == IF i + 1 <= n THEN bs[i + 1] ELSE 0
      b2 == IF i + 2 <= n THEN bs[i + 2] ELSE 0
      b3 == IF i + 3 <= n THEN bs[i + 3] ELSE 0
  IN  CASE b0 < 128 -> 1
        [] b0 >= 194 /\ b0 <= 223 -> IF IsCont(b1) THEN 2 ELSE 0
        [] b0 = 224 -> IF b1 >= 160 /\ b1 <= 191 /\ IsCont(b2) THEN 3 ELSE 0
        [] b0 = 237 -> IF b1 >= 128 /\ b1 <= 159 /\ IsCont(b2) THEN 3 ELSE 0
        [] b0 >= 225 /\ b0 <= 239 /\ b0 # 237 ->
             IF IsCont(b1) /\ IsCont(b2) THEN 3 ELSE 0
        [] b0 = 240 ->
             IF b1 >= 144 /\ b1 <= 191 /\ IsCont(b2) /\ IsCont(b3) THEN 4 ELSE 0
        [] b0 >= 241 /\ b0 <= 243 ->
             IF IsCont(b1) /\ IsCont(b2) /\ IsCont(b3) THEN 4 ELSE 0
        [] b0 = 244 ->
             IF b1 >= 128 /\ b1 <= 143 /\ IsCont(b2) /\ IsCont(b3) THEN 4 ELSE 0
        [] OTHER -> 0

Utf8CodePoint(bs, i, k) ==
  CASE k = 1 -> bs[i]
    [] k = 2 -> (bs[i] - 192) * 64 + (bs[i + 1] - 128)
    [] k = 3 -> (bs[i] - 224) * 4096 + (bs[i + 1] - 128) * 64 + (bs[i + 2] - 128)
    [] OTHER -> (bs[i] - 240) * 262144 + (bs[i + 1] - 128) * 4096
                  + (bs[i + 2] - 128) * 64 + (bs[i + 3] - 128)

\* The code points of bs in order, with -1 in the place of a byte that no
\* well-formed sequence holds: a byte that starts none, or a continuation
\* byte that the sequence starting up to three bytes before it does not
\* reach.
Utf8Scan(bs) ==
  LET reached(j) == \E d \in 1..3 :
                      /\ j - d >= 1
                      /\ ~IsCont(bs[Max(j - d, 1)])
                      /\ Utf8SeqLen(bs, Max(j - d, 1)) > d
      marks == [i \in 1..Len(bs) |->
                  IF IsCont(bs[i]) THEN (IF reached(i) THEN -2 ELSE -1)
                  ELSE IF Utf8SeqLen(bs, i) = 0 THEN -1
                  ELSE Utf8CodePoint(bs, i, Utf8SeqLen(bs, i))]
  IN  SelectSeq(marks, LAMBDA x : x # -2)

\* A decoder that takes each byte for a character.
Utf8DecodeBytewise(bs) == [ok |-> TRUE, val |-> bs]

\* bytes.decode("utf-8")
Utf8Decode(bs) ==
  Only({ IF \E j \in 1..Len(cps) : cps[j] = -1
           THEN [ok |-> FALSE, err |-> "UnicodeDecodeError"]
           ELSE [ok |-> TRUE, val |-> cps] :
         cps \in {Utf8Scan(bs)} })

\* An encoder that writes each character as one byte.
Utf8EncodeCharOneByte(c) == <<c % 256>>

Utf8EncodeChar(c) ==
  CASE c < 128 -> <<c>>
    [] c >= 128 /\ c < 2048 -> <<192 + (c \div 64), 128 + (c % 64)>>
    [] c >= 2048 /\ c < 65536 ->
         <<224 + (c \div 4096), 128 + ((c \div 64) % 64), 128 + (c % 64)>>
    [] OTHER -> <<240 + (c \div 262144), 128 + ((c \div 4096) % 64),
                  128 + ((c \div 64) % 64), 128 + (c % 64)>>

IsSurrogate(c) == c >= 55296 /\ c <= 57343

\* str.encode("utf-8"): the bytes of each character, in order.
Utf8Encode(s) ==
  LET slots == [p \in 1..(4 * Len(s)) |->
                  LET c == Utf8EncodeChar(s[((p - 1) \div 4) + 1])
                      k == ((p - 1) % 4) + 1
                  IN  IF k <= Len(c) THEN c[k] ELSE -1]
  IN  IF \E i \in 1..Len(s) : IsSurrogate(s[i])
        THEN [ok |-> FALSE, err |-> "UnicodeEncodeError"]
        ELSE [ok |-> TRUE, val |-> SelectSeq(slots, LAMBDA b : b # -1)]

\* The characters int() and str.strip() treat as white space (the ASCII ones
\* and U+0085, U+00A0).
IsSpace(c) == c \in {9, 10, 11, 12, 13, 28, 29, 30, 31, 32, 133, 160}
IsDigit(c) == c >= 48 /\ c <= 57

SetMin(S) == CHOOSE x \in S : \A y \in S : x <= y
SetMax(S) == CHOOSE x \in S : \A y \in S : x >= y

\* s.strip()
Strip(s) ==
  LET solid == {i \in 1..Len(s) : ~IsSpace(s[i])}
  IN  IF solid = {} THEN <<>> ELSE SubSeq(s, SetMin(solid), SetMax(solid))

\* A run of decimal digits in which single underscores may separate digits.
IsDigits(s) ==
  /\ s # <<>>
  /\ \A i \in 1..Len(s) :
       \/ IsDigit(s[i])
       \/ s[i] = 95 /\ i > 1 /\ i < Len(s) /\ IsDigit(s[i - 1]) /\ IsDigit(s[i + 1])

DigitsValue(s) ==
  LET v[i \in 0..Len(s)] ==
        IF i = 0 THEN 0
        ELSE IF IsDigit(s[i]) THEN v[i - 1] * 10 + (s[i] - 48)
        ELSE v[i - 1]
  IN  v[Len(s)]

\* int(s) for a str whose digits are ASCII: surrounding white space is
\* dropped, one sign is accepted, ValueError otherwise.
PyInt(s) ==
  LET signed == Strip(s) # <<>> /\ Strip(s)[1] \in {43, 45}
      body   == IF signed THEN Tail(Strip(s)) ELSE Strip(s)
  IN  IF ~IsDigits(body) THEN [ok |-> FALSE, err |-> "ValueError"]
      ELSE [ok |-> TRUE,
            val |-> IF Strip(s)[1] = 45 THEN 0 - DigitsValue(body)
                                        ELSE DigitsValue(body)]

\* s.split(","): the pieces of s between the commas.
SplitComma(s) ==
  LET commas == {i \in 1..Len(s) : s[i] = 44}
      \* the position of the k-th comma; 0 and Len(s) + 1 bound the string
      at(k) == IF k = 0 THEN 0
               ELSE IF k > Cardinality(commas) THEN Len(s) + 1
               ELSE CHOOSE q \in commas : Cardinality({r \in commas : r < q}) = k - 1
  IN  [k \in 1..(Cardinality(commas) + 1) |->
         IF at(k - 1) + 1 > at(k) - 1 THEN <<>>
                                      ELSE SubSeq(s, at(k - 1) + 1, at(k) - 1)]

\* The decimal digits of n >= 0 (n < 10^10).
DecimalDigits(n) ==
  LET w == CHOOSE k \in 1..10 :
             /\ IF k = 10 THEN TRUE ELSE n < 10 ^ k
             /\ IF k = 1 THEN TRUE ELSE n >= 10 ^ (k - 1)
  IN  [i \in 1..w |-> 48 + ((n \div (10 ^ (w - i))) % 10)]

Zeros(k) == IF k <= 0 THEN <<>> ELSE [i \in 1..k |-> 48]

\* f"{n:0{w}d}" for n >= 0: at least w characters, zero-padded on the left.
FormatZeroPadded(n, w) == Zeros(w - Len(DecimalDigits(n))) \o DecimalDigits(n)

(***************************************************************************)
(* The frame codec, src/common/protocol.py.                                *)
(***************************************************************************)

TCP_HEADER_SIZE == 32
TCP_ROOMNAME_SIZE == 256
TCP_PAYLOAD_MAX == 536870912
TCP_PAYLOAD_FIELD_WIDTH == 29
UDP_HEADER_SIZE == 2
UDP_FIELD_MAX == 256

\* A payload argument is a str or a bytes value: [str |-> BOOLEAN, val |-> ...].
StrArg(s) == [str |-> TRUE, val |-> s]
BytesArg(b) == [str |-> FALSE, val |-> b]

Raise(e) == [ok |-> FALSE, err |-> e]

encode_tcp_message(room_name, operation, state, op_payload) ==
  LET payload == IF op_payload.str THEN Utf8Encode(op_payload.val)
                                   ELSE [ok |-> TRUE, val |-> op_payload.val]
      name    == Utf8Encode(room_name)
      \* len(op_payload): of the argument as passed, not of its bytes
      plen    == Len(op_payload.val)
      size    == Utf8Encode(FormatZeroPadded(plen, TCP_PAYLOAD_FIELD_WIDTH))
  IN  IF ~payload.ok THEN Raise(payload.err)
      ELSE IF ~name.ok THEN Raise(name.err)
      ELSE IF Len(name.val) > TCP_ROOMNAME_SIZE THEN Raise("ValueError")
      ELSE IF plen > TCP_PAYLOAD_MAX THEN Raise("ValueError")
      ELSE IF ~ToBytes1(Len(name.val)).ok THEN Raise("OverflowError")
      ELSE IF ~ToBytes1(operation).ok THEN Raise("OverflowError")
      ELSE IF ~ToBytes1(state).ok THEN Raise("OverflowError")
      ELSE IF Len(size.val) # TCP_PAYLOAD_FIELD_WIDTH THEN Raise("ValueError")
      ELSE LET header == ToBytes1(Len(name.val)).val \o ToBytes1(operation).val
                           \o ToBytes1(state).val \o size.val
           IN  IF Len(header) # TCP_HEADER_SIZE THEN Raise("ValueError")
               ELSE [ok |-> TRUE, val |-> header \o name.val \o payload.val]

\* protocol.py:91-105: the frame, once the size field has been read.
DecodeBody(data, op_payload_size) ==
  LET room_name_size == data[1]
      body           == PySlice(data, TCP_HEADER_SIZE, Len(data))
  IN  IF Len(data) < TCP_HEADER_SIZE + room_name_size + op_payload_size
        THEN Raise("ValueError")
      ELSE IF ~Utf8Decode(PySlice(body, 0, room_name_size)).ok
        THEN Raise("UnicodeDecodeError")
      ELSE [ok |-> TRUE,
            room_name |-> Utf8Decode(PySlice(body, 0, room_name_size)).val,
            operation |-> data[2], state |-> data[3],
            op_payload |-> PySlice(body, room_name_size,
                                   room_name_size + op_payload_size)]

\* A decoder that takes every size field for the number 1.
PayloadSizeOne(data) == [ok |-> TRUE, val |-> 1]

\* protocol.py:86-89: int(op_payload_size_field.decode("utf-8")); either
\* failure is a ValueError.
PayloadSize(data) ==
  LET field == Utf8Decode(PySlice(data, 3, TCP_HEADER_SIZE))
  IN  IF field.ok THEN PyInt(field.val) ELSE Raise("ValueError")

decode_tcp_message(data) ==
  IF Len(data) < TCP_HEADER_SIZE THEN Raise("ValueError")
  ELSE Only({ IF size.ok THEN DecodeBody(data, size.val) ELSE Raise("ValueError") :
              size \in {PayloadSize(data)} })

encode_udp_message(room_name, token, message) ==
  LET name == Utf8Encode(room_name)
      tok  == Utf8Encode(token)
      msg  == Utf8Encode(message)
  IN  IF ~name.ok THEN Raise(name.err)
      ELSE IF ~tok.ok THEN Raise(tok.err)
      ELSE IF ~msg.ok THEN Raise(msg.err)
      ELSE IF Len(name.val) > UDP_FIELD_MAX THEN Raise("ValueError")
      ELSE IF Len(tok.val) > UDP_FIELD_MAX THEN Raise("ValueError")
      ELSE IF ~ToBytes1(Len(name.val)).ok \/ ~ToBytes1(Len(tok.val)).ok
             THEN Raise("OverflowError")
      ELSE [ok |-> TRUE,
            val |-> ToBytes1(Len(name.val)).val \o ToBytes1(Len(tok.val)).val
                      \o name.val \o tok.val \o msg.val]

decode_udp_message(data) ==
  IF Len(data) < UDP_HEADER_SIZE THEN Raise("ValueError")
  ELSE
    LET room_name_size == data[1]
        token_size     == data[2]
    IN  IF Len(data) < UDP_HEADER_SIZE + room_name_size + token_size
          THEN Raise("ValueError")
        ELSE
          LET o1        == UDP_HEADER_SIZE + room_name_size
              o2        == o1 + token_size
              room_name == Utf8Decode(PySlice(data, UDP_HEADER_SIZE, o1))
              token     == Utf8Decode(PySlice(data, o1, o2))
              message   == Utf8Decode(PySlice(data, o2, Len(data)))
          IN  IF ~room_name.ok \/ ~token.ok \/ ~message.ok
                THEN Raise("UnicodeDecodeError")
              ELSE [ok |-> TRUE, room_name |-> room_name.val,
                    token |-> token.val, message |-> message.val]

(***************************************************************************)
(* The inputs of the model.                                                *)
(***************************************************************************)

\* The number of control-plane connections and of relay datagrams handled.
MaxTcp == 3
MaxUdp == 1

UDP_SERVER_PORT == 9001

IPs == {"ipA", "ipB"}
RoomNames == {<<114>>, <<115>>}

\* client.py:101-102: the port of the UDP socket a client binds before it
\* creates or joins, where it receives relayed messages and sends from.
ClientPort(ip) == IF ip = "ipA" THEN 5000 ELSE UDP_SERVER_PORT
ClientUser(ip) == IF ip = "ipA" THEN <<97>> ELSE <<98>>
Addrs == {<<ip, ClientPort(i2)>> : ip \in IPs, i2 \in IPs}

\* client.py:17-38, tcp_client_request: the request frame of a client.
ClientRequest(room_name, operation, ip) ==
  LET payload_str == IF operation = 1
                       THEN ClientUser(ip) \o <<44>> \o DecimalDigits(ClientPort(ip))
                       ELSE ClientUser(ip)
  IN  encode_tcp_message(room_name, operation, 0,
                         BytesArg(Utf8Encode(payload_str).val)).val

\* Frames no client of this repository sends: a create with no port and with
\* an unparseable one, an unknown operation, a join and a create whose
\* payload is not UTF-8, a truncated header, a size field that is no number,
\* and no bytes at all.
OddRequests ==
  { encode_tcp_message(<<114>>, 1, 0, BytesArg(<<97>>)).val,
    encode_tcp_message(<<114>>, 1, 0, BytesArg(<<97, 44, 120>>)).val,
    encode_tcp_message(<<114>>, 3, 0, BytesArg(<<97>>)).val,
    encode_tcp_message(<<114>>, 2, 0, BytesArg(<<255>>)).val,
    encode_tcp_message(<<114>>, 1, 0, BytesArg(<<255>>)).val,
    SubSeq(ClientRequest(<<114>>, 2, "ipA"), 1, 31),
    <<1, 2, 0>> \o Zeros(28) \o <<120, 114>>,
    <<>> }

\* The odd frames come from one address: the handler treats an address as
\* it treats any other until it calls the registry.
TcpInputs(ip) ==
  { ClientRequest(rn, op, ip) : rn \in RoomNames, op \in {1, 2} }
    \cup (IF ip = "ipA" THEN OddRequests ELSE {})

\* uuid.uuid4().hex: 32 hexadecimal digits, never the same twice.  The n-th
\* handler's token is the number n written in 32 digits.
HexDigit(n) == IF n < 10 THEN 48 + n ELSE 87 + n
TokenHex(n) == Zeros(31) \o <<HexDigit(n % 16)>>
\* A token no handler issued.
ForgedToken == [i \in 1..32 |-> 102]

Message == <<104, 105>>

(***************************************************************************)
(* The state: ChatRoomManager (server.py:18-70) and the handler threads.    *)
(***************************************************************************)

VARIABLES
  chat_rooms,  \* ChatRoomManager.chat_rooms: room name -> heap reference, 0: absent
  heap,        \* the room dicts ever built, by reference
  lock,        \* ChatRoomManager.lock: 0 free, else the handler holding it
  tcp,         \* the control-plane handler threads
  udp,         \* the relay handler threads
  codec,       \* a call of the frame codec on its own, outside the server
  stage1       \* the stage-1 relay server (src/server/server_stage1.py)

vars == <<chat_rooms, heap, lock, tcp, udp, codec, stage1>>

\* server_stage1.py:15-22: the stage-1 server as it starts, no client known
\* and no datagram read.  clients is the dict in insertion order; now is
\* the clock datetime.now() reads, in seconds.
Stage1Start ==
  [pc |-> "recv", clients |-> <<>>, now |-> 0, data |-> <<>>, address |-> <<>>,
   queue |-> <<>>, idx |-> 0, sends |-> <<>>, exc |-> None]

\* No call of the codec on its own is under way.
CodecIdle == [pc |-> "idle"]

TcpIdle ==
  [pc |-> "idle", ip |-> None, decoded |-> FALSE,
   room_name |-> <<>>, operation |-> 0, username |-> <<>>,
   host_udp_port |-> <<>>, token |-> <<>>, ref |-> 0, sent |-> <<>>]

UdpIdle ==
  [pc |-> "idle", addr |-> <<>>, room_name |-> <<>>,
   token |-> <<>>, chat_text |-> <<>>, chat_room |-> 0, valid |-> FALSE,
   size |-> 0, idx |-> 0, sent |-> <<>>, exc |-> None, known |-> FALSE]

Init ==
  /\ chat_rooms = [rn \in RoomNames |-> 0]
  /\ heap = <<>>
  /\ lock = 0
  /\ tcp = [t \in 1..MaxTcp |-> TcpIdle]
  /\ udp = [h \in 1..MaxUdp |-> UdpIdle]
  /\ codec = CodecIdle
  /\ stage1 = Stage1Start

(***************************************************************************)
(* The control plane: handle_tcp_connection (server.py:73-132) and the      *)
(* registry operations it calls.                                           *)
(***************************************************************************)

ERROR_NO_PORT ==
  <<69, 82, 82, 79, 82, 58, 32, 85, 68, 80, 32, 112, 111, 114, 116, 32, 110,
    111, 116, 32, 112, 114, 111, 118, 105, 100, 101, 100>>
\* The literal is no f-string: the braces are sent as written.
ERROR_ALREADY_EXIST ==
  <<69, 82, 82, 79, 82, 58, 32, 99, 104, 97, 116, 32, 114, 111, 111, 109, 32,
    105, 115, 32, 97, 108, 114, 101, 97, 100, 121, 32, 101, 120, 105, 115,
    116, 46, 32, 123, 114, 111, 111, 109, 95, 110, 97, 109, 101, 125>>
ERROR_NOT_FOUND ==
  <<69, 82, 82, 79, 82, 58, 32, 99, 104, 97, 116, 32, 114, 111, 111, 109, 32,
    110, 111, 116, 32, 102, 111, 117, 110, 100, 46, 32, 123, 114, 111, 111,
    109, 95, 110, 97, 109, 101, 125>>
ERROR_UNKNOWN_OPERATION ==
  <<69, 82, 82, 79, 82, 58, 32, 117, 110, 107, 110, 111, 119, 110, 32, 111,
    112, 101, 114, 97, 116, 105, 111, 110>>

\* server.py:127-130: the response is encoded and sent, and the handler ends.
\* An exception of the encoder ends it with nothing sent (server.py:131).
Respond(l, response_payload) ==
  Only({ [l EXCEPT !.pc = "done",
                   !.sent = IF response.ok THEN Append(l.sent, response.val)
                                           ELSE l.sent] :
         response \in {encode_tcp_message(l.room_name, l.operation, 2,
                                          response_payload)} })

\* server.py:94-103: the user name and the port of the payload.
ParsePayload(op_payload_decoded) ==
  Only({ [username |-> parts[1],
          host_udp_port |-> IF Len(parts) > 1 /\ PyInt(parts[2]).ok
                              THEN <<PyInt(parts[2]).val>> ELSE <<>>] :
         parts \in {SplitComma(op_payload_decoded)} })

\* server.py:105-125, up to the call of the registry: the handler with its
\* locals set, at the call or done.
Dispatch(l) ==
  CASE l.operation = 1 /\ l.host_udp_port = <<>> ->
         Respond(l, BytesArg(Utf8Encode(ERROR_NO_PORT).val))
    [] l.operation = 1 /\ l.host_udp_port # <<>> -> [l EXCEPT !.pc = "create"]
    [] l.operation = 2 -> [l EXCEPT !.pc = "join"]
    [] OTHER -> Respond(l, BytesArg(Utf8Encode(ERROR_UNKNOWN_OPERATION).val))

\* server.py:88-103: the frame and its payload are decoded; an exception of
\* either ends the handler (server.py:131).
Decode(l0, message) ==
  IF ~message.ok THEN [l0 EXCEPT !.pc = "done"]
  ELSE Only({ IF ~text.ok
                THEN [l0 EXCEPT !.pc = "done", !.decoded = TRUE,
                                !.room_name = message.room_name,
                                !.operation = message.operation]
                ELSE Only({ Dispatch(l) :
                            l \in {[l0 EXCEPT !.decoded = TRUE,
                                      !.room_name = message.room_name,
                                      !.operation = message.operation,
                                      !.username = ParsePayload(text.val).username,
                                      !.host_udp_port =
                                         ParsePayload(text.val).host_udp_port]} }) :
              text \in {Utf8Decode(message.op_payload)} })

\* server.py:82-125: what the handler has done, up to the call of the
\* registry, once it has read `data` from a connection of `ip`.
Received(ip, data) ==
  IF data = <<>> THEN [TcpIdle EXCEPT !.ip = ip, !.pc = "done"]
  ELSE Only({ Decode([TcpIdle EXCEPT !.ip = ip], message) :
              message \in {decode_tcp_message(data)} })

\* A registry whose existence check never finds a room.
RoomExistsNever(rooms, room_name) == FALSE

\* server.py:31: room_name in self.chat_rooms
RoomExists(rooms, room_name) == rooms[room_name] # 0

\* A registry whose join never misses a room.
RoomMissingNever(rooms, room_name) == FALSE

\* server.py:46: room_name not in self.chat_rooms
RoomMissing(rooms, room_name) == rooms[room_name] = 0

\* server.py:36-39: the room dict create_chat_room builds.
NewRoom(host_ip, host_username, token, host_udp_port) ==
  [host |-> [ip |-> host_ip, username |-> host_username, token |-> token,
             port |-> host_udp_port],
   participants |-> <<>>]

\* The handlers' states after server.py:82-125, one for each request.
Requests == UNION {{Received(ip, data) : data \in TcpInputs(ip)} : ip \in IPs}

\* server.py:145-147: a connection is accepted and its handler thread reads
\* the request; here the handler ends without a call of the registry.
TcpReject(t) ==
  /\ tcp[t].pc = "idle"
  /\ IF t = 1 THEN TRUE ELSE tcp[t - 1].pc # "idle"
  /\ \E l \in Requests :
       /\ l.pc = "done"
       /\ tcp' = [tcp EXCEPT ![t] = l]
  /\ UNCHANGED <<chat_rooms, heap, lock, udp, codec, stage1>>

\* server.py:30-33 and 112-114: a create request is read and
\* create_chat_room takes the lock, looks the name up and releases the lock;
\* a name that is present returns None, which the handler answers with the
\* error text.
TcpCreate(t) ==
  /\ tcp[t].pc = "idle"
  /\ IF t = 1 THEN TRUE ELSE tcp[t - 1].pc # "idle"
  /\ lock = 0
  /\ \E l \in Requests :
       /\ l.pc = "create"
       /\ tcp' = [tcp EXCEPT ![t] =
                    IF RoomExists(chat_rooms, l.room_name)
                      THEN Respond(l, StrArg(ERROR_ALREADY_EXIST))
                      ELSE [l EXCEPT !.pc = "insert"]]
  /\ UNCHANGED <<chat_rooms, heap, lock, udp, codec, stage1>>

\* server.py:35-41 and 116: outside the lock, the token is drawn and the
\* room is stored under the name; the token is the response.
CreateInsert(t) ==
  /\ tcp[t].pc = "insert"
  /\ LET token == TokenHex(t)
     IN  /\ heap' = Append(heap, NewRoom(tcp[t].ip, tcp[t].username, token,
                                         tcp[t].host_udp_port[1]))
         /\ chat_rooms' = [chat_rooms EXCEPT ![tcp[t].room_name] = Len(heap) + 1]
         /\ tcp' = [tcp EXCEPT ![t] =
                      Respond([tcp[t] EXCEPT !.token = token],
                              BytesArg(Utf8Encode(token).val))]
  /\ UNCHANGED <<lock, udp, codec, stage1>>

\* The index of the entry of `ip` in a participants dict, 0 when it has none.
IndexOf(participants, ip) ==
  IF \E i \in 1..Len(participants) : participants[i].ip = ip
    THEN CHOOSE i \in 1..Len(participants) : participants[i].ip = ip
    ELSE 0

\* participants[ip] = entry: a dict keeps the position of a key it has and
\* puts a new key last.
DictSet(participants, entry) ==
  LET i == IndexOf(participants, entry.ip)
  IN  IF i = 0 THEN Append(participants, entry)
               ELSE [participants EXCEPT ![i] = entry]

\* server.py:45-50 and 119-121: a join request is read and join_chat_room
\* takes the lock and looks the name up; a name that is absent returns None
\* (the lock is released), else the token is drawn and the room dict of the
\* name is fetched.
TcpJoin(t) ==
  /\ tcp[t].pc = "idle"
  /\ IF t = 1 THEN TRUE ELSE tcp[t - 1].pc # "idle"
  /\ lock = 0
  /\ \E l \in Requests :
       /\ l.pc = "join"
       /\ IF RoomMissing(chat_rooms, l.room_name)
            THEN /\ tcp' = [tcp EXCEPT ![t] = Respond(l, StrArg(ERROR_NOT_FOUND))]
                 /\ lock' = lock
            ELSE /\ tcp' = [tcp EXCEPT ![t] =
                              [l EXCEPT !.pc = "store", !.token = TokenHex(t),
                                        !.ref = chat_rooms[l.room_name]]]
                 /\ lock' = t
  /\ UNCHANGED <<chat_rooms, heap, udp, codec, stage1>>

\* server.py:51-56 and 123: the entry is stored in the participants of the
\* fetched room dict, the lock is released, the token is the response.
JoinStore(t) ==
  /\ tcp[t].pc = "store"
  /\ lock = t
  /\ heap' = [heap EXCEPT ![tcp[t].ref].participants =
                DictSet(@, [ip |-> tcp[t].ip, user_name |-> tcp[t].username,
                            token |-> tcp[t].token])]
  /\ lock' = 0
  /\ tcp' = [tcp EXCEPT ![t] = Respond(tcp[t], BytesArg(Utf8Encode(tcp[t].token).val))]
  /\ UNCHANGED <<chat_rooms, udp, codec, stage1>>

(***************************************************************************)
(* The relay plane: handle_udp_message (server.py:150-194).                 *)
(***************************************************************************)

\* The tokens a client can hold: those a response has carried.  A token is
\* unguessable, so a datagram carries one of these or a forged one.
IssuedTokens == {tcp[t].token : t \in {u \in 1..MaxTcp : tcp[u].pc = "done"}} \ {<<>>}

\* client.py:69-75, udp_send_message, and two datagrams that are no frame.
UdpInputs ==
  { encode_udp_message(rn, tok, Message).val :
      rn \in RoomNames, tok \in {TokenHex(t) : t \in 1..MaxTcp} \cup {ForgedToken} }
    \cup {<<1>>, <<1, 32, 114>>}

\* chat_room["participants"].get(ip), where it is not None
DictGet(participants, ip) == participants[IndexOf(participants, ip)]

\* A host check that compares the IP address and not the port.
HostMatchesAnyPort(chat_room, addr, token) ==
  chat_room.host.ip = addr[1] /\ chat_room.host.token = token

\* server.py:170-173: the datagram is the host's.
HostMatches(chat_room, addr, token) ==
  <<chat_room.host.ip, chat_room.host.port>> = addr /\ chat_room.host.token = token

\* server.py:176-178: the datagram is a participant's.
ParticipantMatches(chat_room, addr, token) ==
  /\ IndexOf(chat_room.participants, addr[1]) # 0
  /\ DictGet(chat_room.participants, addr[1]).token = token

\* A token check that accepts every datagram of an existing room.
ValidAlways(chat_room, addr, token) == TRUE

\* server.py:168-181: the value of `valid`.
Valid(chat_room, addr, token) ==
  HostMatches(chat_room, addr, token) \/ ParticipantMatches(chat_room, addr, token)

\* History: whether the room table, as the handler looked the name up, held
\* this token for this sender in the room of that name.
Recorded(rooms, objects, room_name, addr, token) ==
  /\ rooms[room_name] # 0
  /\ LET room == objects[rooms[room_name]]
     IN  \/ room.host.token = token /\ room.host.ip = addr[1] /\ room.host.port = addr[2]
         \/ \E i \in 1..Len(room.participants) :
              room.participants[i].ip = addr[1] /\ room.participants[i].token = token

\* What the handler holds once it has decoded `data` from `addr`
\* (server.py:157-161).
Decoded(addr, data) ==
  LET message == decode_udp_message(data)
      l0      == [UdpIdle EXCEPT !.addr = addr]
  IN  IF ~message.ok THEN [l0 EXCEPT !.pc = "done", !.exc = message.err]
      ELSE [l0 EXCEPT !.pc = "lookup", !.room_name = message.room_name,
                      !.token = message.token, !.chat_text = message.message]

\* The handlers' states after server.py:157-161, one for each datagram.
Datagrams == {Decoded(addr, data) : addr \in Addrs, data \in UdpInputs}

\* server.py:206-207 and 157, 193: a datagram that is no frame is dropped.
UdpDrop(h) ==
  /\ udp[h].pc = "idle"
  /\ IF h = 1 THEN TRUE ELSE udp[h - 1].pc # "idle"
  /\ \E l \in Datagrams :
       /\ l.pc = "done"
       /\ udp' = [udp EXCEPT ![h] = l]
  /\ UNCHANGED <<chat_rooms, heap, lock, tcp, codec, stage1>>

\* server.py:59-61 and 163-166: a datagram is decoded and get_chat_room
\* fetches the room dict under the lock; a name that is absent drops the
\* datagram.
UdpLookup(h) ==
  /\ udp[h].pc = "idle"
  /\ IF h = 1 THEN TRUE ELSE udp[h - 1].pc # "idle"
  /\ lock = 0
  /\ \E l0 \in Datagrams :
       /\ l0.pc = "lookup"
       /\ l0.token \in IssuedTokens \cup {ForgedToken}
       /\ LET l == [l0 EXCEPT !.chat_room = chat_rooms[l0.room_name],
                              !.known = Recorded(chat_rooms, heap, l0.room_name,
                                                 l0.addr, l0.token)]
          IN  udp' = [udp EXCEPT ![h] =
                        [l EXCEPT !.pc = IF l.chat_room = 0 THEN "done" ELSE "validate"]]
  /\ UNCHANGED <<chat_rooms, heap, lock, tcp, codec, stage1>>

\* A broadcast that does not skip the sender.
ShouldSendAlways(target, addr) == TRUE

\* server.py:186 and 190: a member's address is skipped when it is the
\* sender's.
ShouldSend(target, addr) == target # addr

\* server.py:189: the address a participant is sent to.
PartAddr(part_ip) == <<part_ip, UDP_SERVER_PORT>>

\* udp_sock.sendto(relay_data, target): the datagram goes out, or the call
\* raises and the handler ends in its except clause (server.py:193).
SendTo(l, target, ok) ==
  LET s == Append(l.sent, [to |-> target, data |-> Utf8Encode(l.chat_text).val,
                           ok |-> ok])
  IN  IF ok THEN [l EXCEPT !.sent = s]
            ELSE [l EXCEPT !.sent = s, !.pc = "done", !.exc = "OSError"]

\* server.py:168-188: the token check, outside the lock, on the room dict
\* that was fetched; a datagram that fails it is dropped.  Then the send to
\* the host, and the iterator over the participants is made.
UdpValidate(h) ==
  /\ udp[h].pc = "validate"
  /\ LET room      == heap[udp[h].chat_room]
         host_addr == <<room.host.ip, room.host.port>>
         l         == [udp[h] EXCEPT !.valid = TRUE, !.pc = "iter", !.idx = 0,
                                     !.size = Len(room.participants)]
     IN  IF ~Valid(room, udp[h].addr, udp[h].token)
           THEN udp' = [udp EXCEPT ![h] = [udp[h] EXCEPT !.pc = "done"]]
         ELSE IF ShouldSend(host_addr, udp[h].addr)
           THEN \E ok \in BOOLEAN : udp' = [udp EXCEPT ![h] = SendTo(l, host_addr, ok)]
         ELSE udp' = [udp EXCEPT ![h] = l]
  /\ UNCHANGED <<chat_rooms, heap, lock, tcp, codec, stage1>>

\* server.py:188-192: one turn of the loop.  The dict iterator raises
\* RuntimeError when the dict has changed size since the loop began.
UdpSendNext(h) ==
  /\ udp[h].pc = "iter"
  /\ LET participants == heap[udp[h].chat_room].participants
         l            == [udp[h] EXCEPT !.idx = @ + 1]
     IN  IF Len(participants) # udp[h].size
           THEN udp' = [udp EXCEPT ![h] =
                          [udp[h] EXCEPT !.pc = "done", !.exc = "RuntimeError"]]
         ELSE IF udp[h].idx = udp[h].size
           THEN udp' = [udp EXCEPT ![h] = [udp[h] EXCEPT !.pc = "done"]]
         ELSE IF ShouldSend(PartAddr(participants[l.idx].ip), udp[h].addr)
           THEN \E ok \in BOOLEAN :
                  udp' = [udp EXCEPT ![h] =
                            SendTo(l, PartAddr(participants[l.idx].ip), ok)]
         ELSE udp' = [udp EXCEPT ![h] = l]
  /\ UNCHANGED <<chat_rooms, heap, lock, tcp, codec, stage1>>

Next ==
  \/ \E t \in 1..MaxTcp : TcpReject(t)
  \/ \E t \in 1..MaxTcp : TcpCreate(t)
  \/ \E t \in 1..MaxTcp : CreateInsert(t)
  \/ \E t \in 1..MaxTcp : TcpJoin(t)
  \/ \E t \in 1..MaxTcp : JoinStore(t)
  \/ \E h \in 1..MaxUdp : UdpDrop(h)
  \/ \E h \in 1..MaxUdp : UdpLookup(h)
  \/ \E h \in 1..MaxUdp : UdpValidate(h)
  \/ \E h \in 1..MaxUdp : UdpSendNext(h)

Spec == Init /\ [][Next]_vars

(***************************************************************************)
(* The registry under concurrent handlers.                                 *)
(***************************************************************************)

\* The handlers that have returned from create_chat_room / join_chat_room
\* with a token.
Created(t) == tcp[t].pc = "done" /\ tcp[t].operation = 1 /\ tcp[t].token # <<>>
Joined(t)  == tcp[t].pc = "done" /\ tcp[t].operation = 2 /\ tcp[t].token # <<>>

\* C1: of the create_chat_room calls for one room name, however their steps
\* interleave, exactly one returns a token and the others return None: no
\* two handlers hold a token for a create of the same name.
C1_OneCreateWins ==
  \A t, u \in 1..MaxTcp :
    Created(t) /\ Created(u) /\ tcp[t].room_name = tcp[u].room_name => t = u

\* C2: no update is lost: a participant whose join returned a token is
\* recorded in the room of that name with that token, unless the same
\* address has joined the room again (rooms are never removed here).
C2_JoinIsNotLost ==
  \A t \in 1..MaxTcp :
    Joined(t)
    /\ ~(\E u \in 1..MaxTcp \ {t} :
           /\ tcp[u].operation = 2 /\ tcp[u].token # <<>>
           /\ tcp[u].ip = tcp[t].ip /\ tcp[u].room_name = tcp[t].room_name)
    => /\ chat_rooms[tcp[t].room_name] # 0
       /\ \E i \in 1..Len(heap[chat_rooms[tcp[t].room_name]].participants) :
            LET entry == heap[chat_rooms[tcp[t].room_name]].participants[i]
            IN  entry.ip = tcp[t].ip /\ entry.token = tcp[t].token

\* C3: a room that exists keeps the host record it was created with: no step
\* of any handler changes the host (ip, username, token, port) of a room
\* name that is in the registry, or takes the name out.
C3_HostSetOnce ==
  [][\A rn \in RoomNames :
       chat_rooms[rn] # 0 =>
         /\ chat_rooms'[rn] # 0
         /\ heap'[chat_rooms'[rn]].host = heap[chat_rooms[rn]].host]_vars

\* C4: a create_chat_room call that begins when the name is in the registry
\* returns None: no token is issued, the registry and every room dict are as
\* they were, and the one response carries the error text.
C4_CreateOnExistingName ==
  [][\A t \in 1..MaxTcp :
       /\ tcp[t].pc = "idle" /\ tcp'[t].pc # "idle"
       /\ tcp'[t].operation = 1 /\ tcp'[t].host_udp_port # <<>>
       /\ chat_rooms[tcp'[t].room_name] # 0
       => /\ tcp'[t].pc = "done" /\ tcp'[t].token = <<>>
          /\ chat_rooms' = chat_rooms /\ heap' = heap
          /\ tcp'[t].sent =
               << encode_tcp_message(tcp'[t].room_name, 1, 2,
                                     StrArg(ERROR_ALREADY_EXIST)).val >>]_vars

\* A create for a name that was in the registry has been answered with the
\* error text.
C4_Witness ==
  \E t \in 1..MaxTcp :
    /\ tcp[t].pc = "done" /\ tcp[t].operation = 1 /\ tcp[t].host_udp_port # <<>>
    /\ tcp[t].token = <<>> /\ Len(tcp[t].sent) = 1
    /\ chat_rooms[tcp[t].room_name] # 0
    /\ \E u \in 1..MaxTcp : Created(u) /\ tcp[u].room_name = tcp[t].room_name

(***************************************************************************)
(* The relay.                                                              *)
(***************************************************************************)

\* C5: no send performed for a datagram is addressed to the address the
\* datagram came from, whether the sender is the host or a participant.
C5_NoEcho ==
  \A h \in 1..MaxUdp :
    \A j \in 1..Len(udp[h].sent) : udp[h].sent[j].to # udp[h].addr

\* A participant's datagram has been relayed to the host, and the loop has
\* passed, and skipped, the sender's own entry.
C5_Witness ==
  \E h \in 1..MaxUdp :
    /\ udp[h].pc = "done" /\ udp[h].valid /\ udp[h].exc = None
    /\ Len(udp[h].sent) > 0
    /\ \E i \in 1..udp[h].size :
         PartAddr(heap[udp[h].chat_room].participants[i].ip) = udp[h].addr

\* The relay endpoint a participant registered: the address of the UDP
\* socket it bound before it joined (client.py:97-102).
RegisteredEndpoint(part_ip) == <<part_ip, ClientPort(part_ip)>>

Copies(h, target) == Cardinality({j \in 1..Len(udp[h].sent) : udp[h].sent[j].to = target})

\* C6: when a datagram is accepted and its handler ends with no exception,
\* the host and each participant the room had, other than the sender, has
\* been sent exactly one copy at the endpoint it registered.
C6_EachMemberAtItsEndpoint ==
  \A h \in 1..MaxUdp :
    udp[h].pc = "done" /\ udp[h].valid /\ udp[h].exc = None =>
      LET room == heap[udp[h].chat_room]
          host_addr == <<room.host.ip, room.host.port>>
      IN  /\ host_addr # udp[h].addr => Copies(h, host_addr) = 1
          /\ \A i \in 1..udp[h].size :
               RegisteredEndpoint(room.participants[i].ip) # udp[h].addr =>
                 Copies(h, RegisteredEndpoint(room.participants[i].ip)) = 1

\* C7: a datagram is dropped with nothing sent when the registry, as the
\* handler looks the room name up, has no room of that name or holds the
\* datagram's token for its sender neither in the host record nor in a
\* participant record of that room.
C7_UnknownSenderDropped ==
  \A h \in 1..MaxUdp :
    udp[h].pc \in {"validate", "iter", "done"} /\ ~udp[h].known =>
      udp[h].sent = <<>> /\ ~udp[h].valid

\* A datagram with a token no handler issued, naming a room that exists, has
\* been dropped.
C7_Witness ==
  \E h \in 1..MaxUdp :
    /\ udp[h].pc = "done" /\ udp[h].exc = None
    /\ udp[h].chat_room # 0 /\ udp[h].token = ForgedToken
    /\ udp[h].sent = <<>>

\* Handler t issued `token` for the room name and the sender address: a
\* create issues it to the address of the payload's port, a join to the IP
\* address of the connection, which is all a participant record holds.
IssuedTo(t, token, room_name, addr) ==
  /\ tcp[t].token = token /\ tcp[t].room_name = room_name /\ tcp[t].ip = addr[1]
  /\ tcp[t].operation = 1 => tcp[t].host_udp_port = <<addr[2]>>

C9_FailedSendIsIndependent ==
  \A h \in 1..MaxUdp :
    udp[h].pc = "done" /\ udp[h].valid /\ udp[h].exc = "OSError" =>
      LET room == heap[udp[h].chat_room]
          host_addr == <<room.host.ip, room.host.port>>
      IN  /\ host_addr # udp[h].addr => Copies(h, host_addr) >= 1
          /\ \A i \in 1..udp[h].size :
               room.participants[i].ip # udp[h].addr[1] =>
                 Copies(h, PartAddr(room.participants[i].ip)) >= 1

(***************************************************************************)
(* The control-plane handler's responses.                                  *)
(***************************************************************************)

\* C10: a handler that has ended has sent exactly one frame, of State 2,
\* when the bytes it read decoded as a control frame, and none when they
\* did not; never more than one.
C10_ExactlyOneResponse ==
  \A t \in 1..MaxTcp :
    tcp[t].pc = "done" =>
      IF tcp[t].decoded
        THEN Len(tcp[t].sent) = 1 /\ tcp[t].sent[1][3] = 2
        ELSE tcp[t].sent = <<>>

(***************************************************************************)
(* Errors of the control plane, re-joins and the lock.                     *)
(***************************************************************************)

\* C11: a handler that reads a create request whose payload yields no UDP
\* port sends one frame of State 2 with the text "ERROR: UDP port not
\* provided", and the step creates no room and leaves the registry as it
\* was.
C11_CreateWithoutPort ==
  [][\A t \in 1..MaxTcp :
       /\ tcp[t].pc = "idle" /\ tcp'[t].pc # "idle"
       /\ tcp'[t].decoded /\ tcp'[t].operation = 1
       /\ tcp'[t].host_udp_port = <<>>
       => /\ tcp'[t].pc = "done"
          /\ tcp'[t].sent =
               << encode_tcp_message(tcp'[t].room_name, 1, 2,
                                     StrArg(ERROR_NO_PORT)).val >>
          /\ chat_rooms' = chat_rooms /\ heap' = heap]_vars

\* C12: a join_chat_room call for a name that is not in the registry returns
\* None: no token is issued, no room is made, the registry and the room
\* dicts are as they were, and the one response carries the error text.
C12_JoinMissingRoom ==
  [][\A t \in 1..MaxTcp :
       TcpJoin(t) /\ chat_rooms[tcp'[t].room_name] = 0
       => /\ tcp'[t].pc = "done" /\ tcp'[t].token = <<>>
          /\ chat_rooms' = chat_rooms /\ heap' = heap
          /\ tcp'[t].sent =
               << encode_tcp_message(tcp'[t].room_name, 2, 2,
                                     StrArg(ERROR_NOT_FOUND)).val >>]_vars

\* A join of a name that is not in the registry has been answered with the
\* error text.
C12_Witness ==
  \E t \in 1..MaxTcp :
    /\ tcp[t].pc = "done" /\ tcp[t].operation = 2 /\ tcp[t].token = <<>>
    /\ Len(tcp[t].sent) = 1
    /\ PySlice(tcp[t].sent[1], Len(tcp[t].sent[1]) - Len(ERROR_NOT_FOUND),
               Len(tcp[t].sent[1])) = ERROR_NOT_FOUND
    /\ chat_rooms[tcp[t].room_name] = 0

\* The participant records the room of `room_name` holds for `ip`.
RecordsOf(room_name, ip) ==
  IF chat_rooms[room_name] = 0 THEN {}
  ELSE {i \in 1..Len(heap[chat_rooms[room_name]].participants) :
          heap[chat_rooms[room_name]].participants[i].ip = ip}

\* The registry alone, under four control-plane handlers that create and
\* join: one more than Spec runs, and no datagrams.
MaxRegistryTcp == 4

RegistryInit ==
  /\ chat_rooms = [rn \in RoomNames |-> 0]
  /\ heap = <<>>
  /\ lock = 0
  /\ tcp = [t \in 1..MaxRegistryTcp |-> TcpIdle]
  /\ udp = [h \in 1..MaxUdp |-> UdpIdle]
  /\ codec = CodecIdle
  /\ stage1 = Stage1Start

RegistryNext ==
  \/ \E t \in 1..MaxRegistryTcp : TcpCreate(t)
  \/ \E t \in 1..MaxRegistryTcp : CreateInsert(t)
  \/ \E t \in 1..MaxRegistryTcp : TcpJoin(t)
  \/ \E t \in 1..MaxRegistryTcp : JoinStore(t)

RegistrySpec == RegistryInit /\ [][RegistryNext]_vars

\* C13: when a join_chat_room call from an address that has joined the room
\* before returns, the room of that name holds exactly one participant
\* record for the address, the record carries the token this call issued,
\* that token is no token issued before, and the token check rejects the
\* earlier token from that address.
C13_RejoinOverwrites ==
  [][\A t \in DOMAIN tcp :
       /\ tcp[t].pc = "store" /\ tcp'[t].pc = "done"
       /\ \E u \in DOMAIN tcp :
            Joined(u) /\ tcp[u].ip = tcp[t].ip /\ tcp[u].room_name = tcp[t].room_name
       => /\ Cardinality(RecordsOf(tcp[t].room_name, tcp[t].ip)') = 1
          /\ \A i \in RecordsOf(tcp[t].room_name, tcp[t].ip)' :
               heap'[chat_rooms'[tcp[t].room_name]].participants[i].token
                 = tcp'[t].token
          /\ \A u \in DOMAIN tcp \ {t} :
               /\ tcp[u].token # tcp'[t].token
               /\ Joined(u) /\ tcp[u].ip = tcp[t].ip
                    /\ tcp[u].room_name = tcp[t].room_name
                  => \A addr \in Addrs :
                       addr[1] = tcp[t].ip =>
                         ~Valid(heap'[chat_rooms'[tcp[t].room_name]], addr,
                                tcp[u].token)]_vars

\* C14: no room has a participant record keyed by the IP address of its own
\* host.
C14_HostIsNoParticipant ==
  \A rn \in RoomNames :
    chat_rooms[rn] # 0 =>
      \A i \in 1..Len(heap[chat_rooms[rn]].participants) :
        heap[chat_rooms[rn]].participants[i].ip # heap[chat_rooms[rn]].host.ip

\* C15: the room table and the room dicts are written only by the thread
\* that holds the registry lock, and the room dict a relay handler reads
\* and iterates, once it has fetched it, is modified by no other thread
\* until the handler is done with it.
C15_AccessUnderLock ==
  [][/\ chat_rooms' # chat_rooms \/ heap' # heap =>
          \E t \in 1..MaxTcp : lock = t /\ tcp'[t] # tcp[t]
     /\ \A h \in 1..MaxUdp :
          udp[h].pc \in {"validate", "iter"} =>
            heap'[udp[h].chat_room] = heap[udp[h].chat_room]]_vars

(***************************************************************************)
(* The frame codec on its own: a caller encodes a frame and decodes it      *)
(* again, or decodes a buffer it has received.                             *)
(***************************************************************************)

\* The length of the longest room name and token tried.
MaxFieldLen == 257

Repeat(c, n) == [i \in 1..n |-> c]

\* Names and tokens of one, two, three and four bytes a character, at the
\* limit of the size byte and beyond it, and one that has no UTF-8 form.
CodecStrings ==
  { <<>>, <<114>>, <<233>>, <<26085, 114>>, <<128512>>, <<55296>>,
    Repeat(97, MaxFieldLen - 2), Repeat(233, 127) \o <<97>>,
    Repeat(97, MaxFieldLen - 1), Repeat(233, 128), Repeat(97, MaxFieldLen) }

CodecPayloads ==
  { BytesArg(<<>>), BytesArg(<<97>>), BytesArg(<<97, 44, 53, 48, 48, 48>>),
    BytesArg(<<255, 0>>), StrArg(<<233>>) }

\* A call that has not been made has returned nothing.
NotCalled == Raise("NotCalled")

CodecCall(kind, room_name, operation, state, op_payload, token, message, data) ==
  [pc |-> "input", kind |-> kind, room_name |-> room_name,
   operation |-> operation, state |-> state, op_payload |-> op_payload,
   token |-> token, message |-> message, data |-> data,
   frame |-> NotCalled, out |-> NotCalled]

\* The arguments of encode_tcp_message.
TcpCodecInputs ==
  { CodecCall("tcp", rn, op, st, pl, <<>>, <<>>, <<>>) :
      rn \in CodecStrings, op \in {0, 1, 255}, st \in {0, 2, 255},
      pl \in CodecPayloads }

\* The arguments of encode_udp_message.
UdpCodecInputs ==
  { CodecCall("udp", rn, 0, 0, BytesArg(<<>>), tok, msg, <<>>) :
      rn \in CodecStrings,
      tok \in {<<>>, TokenHex(1), <<233>>, Repeat(102, MaxFieldLen - 2),
               Repeat(102, MaxFieldLen - 1)},
      msg \in {<<>>, Message, <<26085, 10>>} }

\* OperationPayloadSize fields: numbers, and 29 bytes that are no number
\* of decimal digits.
SizeFields ==
  { Zeros(29), Zeros(28) \o <<49>>, Zeros(28) \o <<53>>,
    <<45>> \o Zeros(27) \o <<49>>, <<45>> \o Zeros(28),
    <<43>> \o Zeros(27) \o <<49>>, <<32>> \o Zeros(27) \o <<49>>,
    Zeros(27) \o <<95, 49>>, Zeros(28) \o <<120>>, Zeros(28) \o <<255>>,
    Repeat(32, 29) }

\* Buffers a peer can send: the prefixes of a frame, and a header with a
\* body that is as long as the header says, longer, shorter, or absent.
RawBuffers ==
  { SubSeq(ClientRequest(<<114>>, 1, "ipA"), 1, n) : n \in 0..35 }
    \cup { <<rns, op, 0>> \o field \o body :
             rns \in {0, 1, 5, 255}, op \in {1, 2}, field \in SizeFields,
             body \in {<<>>, <<114>>, <<114, 97>>, <<114, 97, 98, 99, 100, 101>>} }

RawCodecInputs ==
  { CodecCall("raw", <<>>, 0, 0, BytesArg(<<>>), <<>>, <<>>, data) :
      data \in RawBuffers }

CodecInit ==
  /\ chat_rooms = [rn \in RoomNames |-> 0]
  /\ heap = <<>>
  /\ lock = 0
  /\ tcp = [t \in 1..MaxTcp |-> TcpIdle]
  /\ udp = [h \in 1..MaxUdp |-> UdpIdle]
  /\ codec \in TcpCodecInputs \cup UdpCodecInputs \cup RawCodecInputs
  /\ stage1 = Stage1Start

\* protocol.py:39-73: the caller encodes a control frame.
EncodeTcp ==
  /\ codec.pc = "input" /\ codec.kind = "tcp"
  /\ codec' = [codec EXCEPT !.pc = "encoded",
                            !.frame = encode_tcp_message(codec.room_name,
                                        codec.operation, codec.state,
                                        codec.op_payload)]
  /\ UNCHANGED <<chat_rooms, heap, lock, tcp, udp, stage1>>

\* protocol.py:106-121: the caller encodes a relay frame.
EncodeUdp ==
  /\ codec.pc = "input" /\ codec.kind = "udp"
  /\ codec' = [codec EXCEPT !.pc = "encoded",
                            !.frame = encode_udp_message(codec.room_name,
                                        codec.token, codec.message)]
  /\ UNCHANGED <<chat_rooms, heap, lock, tcp, udp, stage1>>

\* protocol.py:75-105: the frame that was encoded is decoded.
DecodeTcp ==
  /\ codec.pc = "encoded" /\ codec.kind = "tcp" /\ codec.frame.ok
  /\ codec' = [codec EXCEPT !.pc = "decoded",
                            !.out = decode_tcp_message(codec.frame.val)]
  /\ UNCHANGED <<chat_rooms, heap, lock, tcp, udp, stage1>>

\* protocol.py:123-149: the frame that was encoded is decoded.
DecodeUdp ==
  /\ codec.pc = "encoded" /\ codec.kind = "udp" /\ codec.frame.ok
  /\ codec' = [codec EXCEPT !.pc = "decoded",
                            !.out = decode_udp_message(codec.frame.val)]
  /\ UNCHANGED <<chat_rooms, heap, lock, tcp, udp, stage1>>

\* protocol.py:75-105: a received buffer is decoded.
DecodeRaw ==
  /\ codec.pc = "input" /\ codec.kind = "raw"
  /\ codec' = [codec EXCEPT !.pc = "decoded",
                            !.out = decode_tcp_message(codec.data)]
  /\ UNCHANGED <<chat_rooms, heap, lock, tcp, udp, stage1>>

CodecNext ==
  \/ EncodeTcp
  \/ EncodeUdp
  \/ DecodeTcp
  \/ DecodeUdp
  \/ DecodeRaw

CodecSpec == CodecInit /\ [][CodecNext]_vars

\* len(s.encode("utf-8")), -1 when s has no UTF-8 form.
EncodedLen(s) == IF Utf8Encode(s).ok THEN Len(Utf8Encode(s).val) ELSE -1

\* C16: for a room name of at most 255 encoded bytes, an operation and a
\* state in 0..255 and a bytes payload, encode_tcp_message returns a frame
\* and decode_tcp_message returns from it exactly that room name,
\* operation, state and payload.
C16_TcpRoundTrip ==
  /\ codec.kind = "tcp" /\ codec.pc \in {"encoded", "decoded"}
  /\ EncodedLen(codec.room_name) \in 0..255
  /\ codec.operation \in 0..255 /\ codec.state \in 0..255
  /\ ~codec.op_payload.str
  => /\ codec.frame.ok
     /\ codec.pc = "decoded" =>
          codec.out = [ok |-> TRUE, room_name |-> codec.room_name,
                       operation |-> codec.operation, state |-> codec.state,
                       op_payload |-> codec.op_payload.val]

\* A frame whose room name is 255 bytes of two-byte characters has come
\* back from the decoder.
C16_Witness ==
  /\ codec.kind = "tcp" /\ codec.pc = "decoded" /\ codec.out.ok
  /\ EncodedLen(codec.room_name) = 255 /\ Len(codec.room_name) = 128
  /\ codec.operation = 255 /\ codec.op_payload = BytesArg(<<255, 0>>)

\* C17: for a room name and a token of at most 255 encoded bytes each and
\* any message, the empty one included, encode_udp_message returns a frame
\* and decode_udp_message returns from it exactly that room name, token and
\* message.
C17_UdpRoundTrip ==
  /\ codec.kind = "udp" /\ codec.pc \in {"encoded", "decoded"}
  /\ EncodedLen(codec.room_name) \in 0..255
  /\ EncodedLen(codec.token) \in 0..255
  /\ EncodedLen(codec.message) >= 0
  => /\ codec.frame.ok
     /\ codec.pc = "decoded" =>
          codec.out = [ok |-> TRUE, room_name |-> codec.room_name,
                       token |-> codec.token, message |-> codec.message]

\* A relay frame with a room name and a token of 255 bytes each and the
\* empty message has come back from the decoder.
C17_Witness ==
  /\ codec.kind = "udp" /\ codec.pc = "decoded" /\ codec.out.ok
  /\ EncodedLen(codec.room_name) = 255 /\ Len(codec.room_name) = 128
  /\ EncodedLen(codec.token) = 255 /\ codec.message = <<>>

\* C18: in both encoders a room name of exactly 255 encoded bytes is encoded
\* and decodes back to itself, and a room name of 256 encoded bytes or more
\* is rejected by the validation check, with the ValueError it raises.
C18_RoomNameBoundary ==
  /\ codec.kind \in {"tcp", "udp"} /\ codec.pc \in {"encoded", "decoded"}
  /\ EncodedLen(codec.token) \in 0..255
  => /\ EncodedLen(codec.room_name) = 255 =>
          /\ codec.frame.ok
          /\ codec.pc = "decoded" =>
               codec.out.ok /\ codec.out.room_name = codec.room_name
     /\ EncodedLen(codec.room_name) >= 256 =>
          ~codec.frame.ok /\ codec.frame.err = "ValueError"

\* The OperationPayloadSize field of a buffer of at least 32 bytes.
SizeField(data) == SubSeq(data, 4, TCP_HEADER_SIZE)

\* C19, as stated: decode_tcp_message raises its ValueError on every buffer
\* shorter than 32 bytes, and returns a frame with an empty payload from
\* every buffer of exactly 32 bytes whose size field is 29 digits '0'.
C19_HeaderOnly ==
  codec.kind = "raw" /\ codec.pc = "decoded" =>
    /\ Len(codec.data) < TCP_HEADER_SIZE =>
         ~codec.out.ok /\ codec.out.err = "ValueError"
    /\ Len(codec.data) = TCP_HEADER_SIZE /\ SizeField(codec.data) = Zeros(29) =>
         codec.out.ok /\ codec.out.op_payload = <<>>

\* C19, amended: decode_tcp_message raises its ValueError on every buffer
\* shorter than 32 bytes; from a buffer of exactly 32 bytes whose size field
\* is 29 digits '0' it returns a frame with an empty room name and an empty
\* payload when the RoomNameSize byte is 0, and raises its ValueError when
\* that byte is not 0, the buffer being shorter than the name it announces.
C19_HeaderOnlyWithoutName ==
  codec.kind = "raw" /\ codec.pc = "decoded" =>
    /\ Len(codec.data) < TCP_HEADER_SIZE =>
         ~codec.out.ok /\ codec.out.err = "ValueError"
    /\ Len(codec.data) = TCP_HEADER_SIZE /\ SizeField(codec.data) = Zeros(29) =>
         IF codec.data[1] = 0
           THEN codec.out = [ok |-> TRUE, room_name |-> <<>>,
                             operation |-> codec.data[2],
                             state |-> codec.data[3], op_payload |-> <<>>]
           ELSE ~codec.out.ok /\ codec.out.err = "ValueError"

\* A buffer of exactly 32 bytes, with RoomNameSize 0 and a size field of
\* zeros, has been decoded to a frame.
C19_Witness ==
  /\ codec.kind = "raw" /\ codec.pc = "decoded"
  /\ Len(codec.data) = TCP_HEADER_SIZE /\ SizeField(codec.data) = Zeros(29)
  /\ codec.data[1] = 0 /\ codec.out.ok

\* C20: decode_tcp_message returns a frame from a buffer of 32 bytes or more
\* only if the size field is 29 decimal digits and the buffer is at least
\* as long as 32 + RoomNameSize + the size the field declares.
C20_SizeFieldChecked ==
  codec.kind = "raw" /\ codec.pc = "decoded"
  /\ Len(codec.data) >= TCP_HEADER_SIZE /\ codec.out.ok
  => /\ \A i \in 1..29 : IsDigit(SizeField(codec.data)[i])
     /\ Len(codec.data) >= TCP_HEADER_SIZE + codec.data[1]
                             + DigitsValue(SizeField(codec.data))

(***************************************************************************)
(* The stage-1 relay server, src/server/server_stage1.py: one socket, no   *)
(* rooms and no tokens.  One thread reads a datagram, records its sender,  *)
(* drops the clients that went quiet or unreachable and sends the datagram *)
(* to every other client.                                                  *)
(***************************************************************************)
TIMEOUT_SECONDS == 60
MAX_FAILED_ATTEMPTS == 3

\* The clock stops at MaxClock; between two reads of it Stage1Ticks seconds
\* may pass, so that a client is seen 60 and 61 seconds after its datagram.
MaxClock == 61
Stage1Ticks == {30, 31}

\* The senders: two sockets of one machine and one of another.
Stage1Addrs == {<<"ipA", 5000>>, <<"ipA", 5001>>, <<"ipB", 5000>>}

\* The datagrams read: user "a" with message "h", an empty user name with
\* message "h", no bytes, one byte, a name length beyond the datagram and a
\* user name that is not UTF-8.
Stage1Datagrams ==
  {<<1, 97, 104>>, <<0, 104>>, <<>>, <<5>>, <<5, 97>>, <<1, 255, 104>>}

\* The position of a key of the clients dict, 0 when absent.
ClientIndex(clients, address) ==
  IF \E i \in 1..Len(clients) : clients[i].address = address
    THEN CHOOSE i \in 1..Len(clients) : clients[i].address = address
    ELSE 0

\* list(clients.keys()), in insertion order
ClientKeys(clients) == [i \in 1..Len(clients) |-> clients[i].address]

\* server_stage1.py:59-65: a new sender is put last with no failed attempt,
\* a known one has its last_active set and keeps its failed_attempts.
Register(clients, address, current_time) ==
  IF ClientIndex(clients, address) = 0
    THEN Append(clients, [address |-> address, last_active |-> current_time,
                          failed_attempts |-> 0])
    ELSE [clients EXCEPT ![ClientIndex(clients, address)].last_active =
                           current_time]

\* server_stage1.py:67-81: the exception the body of the loop raises before
\* it reaches the cleanup, None when it raises none.
Validate(data) ==
  IF Len(data) > 1
    THEN LET username_len == data[1]
         IN  IF Len(data) < 1 + username_len
               THEN "Exception"
               ELSE IF Utf8Decode(PySlice(data, 1, username_len + 1)).ok
                      THEN None
                      ELSE "UnicodeDecodeError"
    ELSE "Exception"

\* A test that looks at the time of the last datagram alone.
InactiveByTimeoutOnly(client_info, current_time) ==
  current_time - client_info.last_active > TIMEOUT_SECONDS

\* server_stage1.py:32
Inactive(client_info, current_time) ==
  \/ current_time - client_info.last_active > TIMEOUT_SECONDS
  \/ client_info.failed_attempts >= MAX_FAILED_ATTEMPTS

\* server_stage1.py:24-37: the addresses to drop are collected first and
\* deleted afterwards; a deletion keeps the order of the other keys.
cleanup_inactive_clients(clients, current_time) ==
  LET inactive_clients ==
        SelectSeq(ClientKeys(clients),
                  LAMBDA address :
                    Inactive(clients[ClientIndex(clients, address)],
                             current_time))
  IN  SelectSeq(clients,
                LAMBDA client_info :
                  \A j \in 1..Len(inactive_clients) :
                    inactive_clients[j] # client_info.address)

\* A relay that sends to the sender as well.
ShouldRelayAlways(client_address, sender_address) == TRUE

\* server_stage1.py:45
ShouldRelay(client_address, sender_address) == client_address # sender_address

\* server_stage1.py:48 and :50: failed_attempts after one send.
AfterSend(client_info, ok) ==
  [client_info EXCEPT !.failed_attempts = IF ok THEN 0 ELSE @ + 1]

\* Time passes while the loop waits in recvfrom (line 56) and between the
\* two reads of the clock (lines 57 and 28).
Stage1Tick(d) ==
  /\ stage1.pc \in {"recv", "cleanup"}
  /\ stage1.now + d <= MaxClock
  /\ stage1' = [stage1 EXCEPT !.now = @ + d]
  /\ UNCHANGED <<chat_rooms, heap, lock, tcp, udp, codec>>

\* server_stage1.py:56-81 up to the call of cleanup_inactive_clients: the
\* sender is recorded before the datagram is looked at, and a datagram that
\* raises is logged (lines 83-84) and the loop reads the next one.  The
\* datagram and its sender are kept while they are still read, that is up
\* to the end of relay_message.
Stage1Receive(data, address) ==
  /\ stage1.pc = "recv"
  /\ IF Validate(data) = None
       THEN stage1' = [stage1 EXCEPT
                         !.clients = Register(@, address, stage1.now),
                         !.data = data, !.address = address,
                         !.exc = None, !.pc = "cleanup"]
       ELSE stage1' = [stage1 EXCEPT
                         !.clients = Register(@, address, stage1.now),
                         !.exc = Validate(data)]
  /\ UNCHANGED <<chat_rooms, heap, lock, tcp, udp, codec>>

\* server_stage1.py:77 and :43: the cleanup, then relay_message copies the
\* keys of the dict it is about to walk.
Stage1Cleanup ==
  /\ stage1.pc = "cleanup"
  /\ LET kept == cleanup_inactive_clients(stage1.clients, stage1.now)
     IN  stage1' = [stage1 EXCEPT !.clients = kept, !.queue = ClientKeys(kept),
                                  !.idx = 0, !.pc = "relay"]
  /\ UNCHANGED <<chat_rooms, heap, lock, tcp, udp, codec>>

\* server_stage1.py:43-51: one turn of the loop of relay_message; sendto
\* returns or raises, and the exception is caught inside the turn.
Stage1RelayNext ==
  /\ stage1.pc = "relay"
  /\ stage1.idx < Len(stage1.queue)
  /\ LET client_address == stage1.queue[stage1.idx + 1]
         i == ClientIndex(stage1.clients, client_address)
     IN  IF ShouldRelay(client_address, stage1.address)
           THEN \E ok \in BOOLEAN :
                  stage1' = [stage1 EXCEPT
                    !.sends = Append(@, [to |-> client_address,
                                         data |-> stage1.data, ok |-> ok]),
                    !.clients[i] = AfterSend(@, ok),
                    !.idx = @ + 1]
           ELSE stage1' = [stage1 EXCEPT !.idx = @ + 1]
  /\ UNCHANGED <<chat_rooms, heap, lock, tcp, udp, codec>>

\* server_stage1.py:79 and :52: relay_message returns and the loop reads
\* the next datagram.
Stage1RelayDone ==
  /\ stage1.pc = "relay"
  /\ stage1.idx = Len(stage1.queue)
  /\ stage1' = [stage1 EXCEPT !.pc = "recv", !.data = <<>>, !.address = <<>>,
                              !.queue = <<>>, !.idx = 0, !.sends = <<>>]
  /\ UNCHANGED <<chat_rooms, heap, lock, tcp, udp, codec>>

Stage1Init ==
  /\ chat_rooms = [rn \in RoomNames |-> 0]
  /\ heap = <<>>
  /\ lock = 0
  /\ tcp = [t \in 1..MaxTcp |-> TcpIdle]
  /\ udp = [h \in 1..MaxUdp |-> UdpIdle]
  /\ codec = CodecIdle
  /\ stage1 = Stage1Start

Stage1Next ==
  \/ \E d \in Stage1Ticks : Stage1Tick(d)
  \/ \E data \in Stage1Datagrams, address \in Stage1Addrs :
       Stage1Receive(data, address)
  \/ Stage1Cleanup
  \/ Stage1RelayNext
  \/ Stage1RelayDone

Stage1Spec == Stage1Init /\ [][Stage1Next]_vars

\* The number of sends of the datagram in hand to one address.
SendsTo(st, a) == Cardinality({j \in 1..Len(st.sends) : st.sends[j].to = a})

\* C21: for a valid datagram from address S, relay_message sends the
\* datagram as received once to every client of the table other than S and
\* never to S: while it runs no address got the datagram twice, S got none,
\* and when it has walked the table every client but S got it once.  A
\* send that raises adds one to the failed_attempts of its client, a send
\* that returns sets it to 0, no other client is touched, and the walk
\* goes on to the next client either way.
C21_Stage1Relay ==
  [][ /\ stage1'.pc = "relay" =>
           /\ stage1'.queue = ClientKeys(stage1'.clients)
           /\ \A j \in 1..Len(stage1'.sends) :
                /\ stage1'.sends[j].data = stage1'.data
                /\ stage1'.sends[j].to # stage1'.address
           /\ \A a \in Stage1Addrs : SendsTo(stage1', a) <= 1
           /\ stage1'.idx = Len(stage1'.queue) =>
                \A a \in Stage1Addrs :
                  SendsTo(stage1', a) =
                    IF ClientIndex(stage1'.clients, a) # 0
                       /\ a # stage1'.address
                      THEN 1 ELSE 0
      /\ (stage1.pc = "relay" /\ stage1'.pc = "relay") =>
           /\ stage1'.idx = stage1.idx + 1
           /\ Len(stage1'.clients) = Len(stage1.clients)
           /\ \A i \in 1..Len(stage1.clients) :
                IF stage1.clients[i].address = stage1.queue[stage1.idx + 1]
                   /\ stage1.clients[i].address # stage1.address
                  THEN /\ Len(stage1'.sends) = Len(stage1.sends) + 1
                       /\ stage1'.sends[Len(stage1'.sends)].to =
                            stage1.clients[i].address
                       /\ stage1'.clients[i].address =
                            stage1.clients[i].address
                       /\ stage1'.clients[i].last_active =
                            stage1.clients[i].last_active
                       /\ stage1'.clients[i].failed_attempts =
                            IF stage1'.sends[Len(stage1'.sends)].ok
                              THEN 0
                              ELSE stage1.clients[i].failed_attempts + 1
                  ELSE stage1'.clients[i] = stage1.clients[i]
    ]_vars

\* relay_message has walked a table of three clients, the sender among
\* them: the first send raised and the second one still went out.
C21_Witness ==
  /\ stage1.pc = "relay"
  /\ Len(stage1.queue) = 3
  /\ stage1.idx = 3
  /\ ClientIndex(stage1.clients, stage1.address) # 0
  /\ Len(stage1.sends) = 2
  /\ ~stage1.sends[1].ok
  /\ stage1.sends[2].ok

\* C22: cleanup_inactive_clients removes exactly the clients whose
\* failed_attempts is MAX_FAILED_ATTEMPTS or more or whose last_active is
\* more than TIMEOUT_SECONDS old and keeps the others as they are; no
\* client ever has more than 3 failed attempts; and the sender of a valid
\* datagram whose failed_attempts is 3 is removed by the cleanup run for
\* its own datagram.
C22_Stage1Expiry ==
  [][ /\ (stage1.pc = "cleanup" /\ stage1'.pc = "relay") =>
           /\ \A i \in 1..Len(stage1.clients) :
                (\E j \in 1..Len(stage1'.clients) :
                   stage1'.clients[j] = stage1.clients[i])
                <=> ~ \/ stage1.clients[i].failed_attempts >= 3
                      \/ stage1.now - stage1.clients[i].last_active > 60
           /\ \A j \in 1..Len(stage1'.clients) :
                \E i \in 1..Len(stage1.clients) :
                  stage1.clients[i] = stage1'.clients[j]
           /\ (\E i \in 1..Len(stage1.clients) :
                 /\ stage1.clients[i].address = stage1.address
                 /\ stage1.clients[i].failed_attempts = 3)
                => ClientIndex(stage1'.clients, stage1.address) = 0
      /\ \A j \in 1..Len(stage1'.clients) :
           stage1'.clients[j].failed_attempts <= 3
    ]_vars

\* The cleanup run for a valid datagram has removed its sender, and the
\* datagram has gone out to another client.
C22_Witness ==
  /\ stage1.pc = "relay"
  /\ ClientIndex(stage1.clients, stage1.address) = 0
  /\ Len(stage1.sends) > 0

====
